---- MODULE Spec2Model ----
(***************************************************************************)
(* A model of the ChaCha20 / ChaCha20-Poly1305 / XChaCha20-Poly1305 code   *)
(* of chacha/src/cipher.rs.                                                *)
(*                                                                         *)
(* Bytes are the integers 0..255 and byte strings are sequences of bytes.  *)
(* A 32-bit word (u32) is a pair <<hi, lo>> of 16-bit halves, because a    *)
(* u32 does not fit the model checker's integers; every operation on a     *)
(* word is computed modulo 2^32 on the halves.                             *)
(***************************************************************************)
EXTENDS Integers, Sequences, FiniteSets, TLC

VARIABLES
    overflow_checks,  \* the build: TRUE when u32 `+` panics on overflow (debug
                      \* profile), FALSE when it wraps (release profile)
    key,              \* the key field of the cipher objects
    rounds,           \* the rounds field of the cipher objects
    call,             \* the call in flight or just returned, with its arguments
    ret,              \* what that call returned, with the trace of its steps
    prev              \* the call whose output this call was given, if any

vars == <<overflow_checks, key, rounds, call, ret, prev>>

----------------------------------------------------------------------------
(* Word and byte utilities (crate::utils, little-endian packing).          *)

Pow2(n) == 2 ^ n

RECURSIVE XorBits(_, _)
\* a ^ b on naturals, bit by bit.
XorBits(a, b) ==
    IF a = 0 THEN b
    ELSE IF b = 0 THEN a
    ELSE ((a + b) % 2) + 2 * XorBits(a \div 2, b \div 2)

\* XOR of two 4-bit values, tabulated once.
XorNib == [a \in 0..15 |-> [b \in 0..15 |-> XorBits(a, b)]]

RECURSIVE Xor(_, _)
\* a ^ b on naturals, four bits at a time: chunk ^ key on u8 (cipher.rs:81).
Xor(a, b) ==
    IF a = 0 THEN b
    ELSE IF b = 0 THEN a
    ELSE XorNib[a % 16][b % 16] + 16 * Xor(a \div 16, b \div 16)

\* u32 ^ u32.
Xor32(a, b) == <<Xor(a[1], b[1]), Xor(a[2], b[2])>>

\* u32 wrapping addition.
Add32(a, b) ==
    <<(a[1] + b[1] + ((a[2] + b[2]) \div 65536)) % 65536,
      (a[2] + b[2]) % 65536>>

\* u32::rotate_left(n), 0 < n <= 16.
Rotl32(a, n) ==
    IF n = 16 THEN <<a[2], a[1]>>
    ELSE <<((a[1] * Pow2(n)) % 65536) + (a[2] \div Pow2(16 - n)),
           ((a[2] * Pow2(n)) % 65536) + (a[1] \div Pow2(16 - n))>>

\* The u32 with value n, for 0 <= n < 2^31.
U32(n) == <<n \div 65536, n % 65536>>

\* from_le_bytes of the four bytes b[i], b[i+1], b[i+2], b[i+3] (1-based i).
from_le_bytes(b, i) == <<b[i + 3] * 256 + b[i + 2], b[i + 1] * 256 + b[i]>>

\* u32::to_le_bytes.
to_le_bytes(w) == <<w[2] % 256, w[2] \div 256, w[1] % 256, w[1] \div 256>>

RECURSIVE WordsToBytes(_)
\* The byte string of a sequence of words, each little-endian.
WordsToBytes(ws) ==
    IF ws = <<>> THEN <<>> ELSE to_le_bytes(Head(ws)) \o WordsToBytes(Tail(ws))

\* n zero bytes.
Zeros(n) == [i \in 1..n |-> 0]

----------------------------------------------------------------------------
(* The permutation backend (crate::backends::rounds).                      *)

\* s with the sum x in word i and, in word k, word k ^ x rotated left by n.
XorRotl(s, i, k, x, n) ==
    [s EXCEPT ![i] = x, ![k] = Rotl32(Xor32(s[k], x), n)]

\* i += j; k ^= i; k = rotl(k, n) on the words i, j, k of s.
AddXorRotl(s, i, j, k, n) == XorRotl(s, i, k, Add32(s[i], s[j]), n)

\* One quarter-round on the words at positions a, b, c, d of the state s:
\* a += b; d ^= a; d = rotl(d, 16); c += d; b ^= c; b = rotl(b, 12);
\* a += b; d ^= a; d = rotl(d, 8);  c += d; b ^= c; b = rotl(b, 7).
QuarterRound(s, a, b, c, d) ==
    AddXorRotl(AddXorRotl(AddXorRotl(AddXorRotl(s, a, b, d, 16),
                                     c, d, b, 12),
                          a, b, d, 8),
               c, d, b, 7)

\* The positions of the eight quarter-rounds of a double-round: the four
\* columns, then the four diagonals.
QuarterRoundPositions ==
    << <<1, 5, 9, 13>>, <<2, 6, 10, 14>>, <<3, 7, 11, 15>>, <<4, 8, 12, 16>>,
       <<1, 6, 11, 16>>, <<2, 7, 12, 13>>, <<3, 8, 9, 14>>, <<4, 5, 10, 15>> >>

\* The quarter-round on the four positions `at`.
QuarterRoundAt(s, at) == QuarterRound(s, at[1], at[2], at[3], at[4])

RECURSIVE QuarterRounds(_, _)
\* The quarter-rounds i..8 of a double-round, applied to s in turn (s always
\* has 16 words).
QuarterRounds(s, i) ==
    IF i > 8 \/ Len(s) # 16 THEN s
    ELSE QuarterRounds(QuarterRoundAt(s, QuarterRoundPositions[i]), i + 1)

DoubleRound(s) == QuarterRounds(s, 1)

RECURSIVE Permute(_, _)
\* That many double-rounds, applied to s in turn.
Permute(s, doubleRounds) ==
    IF doubleRounds = 0 \/ Len(s) # 16 THEN s
    ELSE Permute(DoubleRound(s), doubleRounds - 1)

\* The permuted state p, added word-wise to the input state unless
\* skip_feedforward.
FeedForward(p, state, skip_feedforward) ==
    IF skip_feedforward THEN p ELSE [i \in 1..16 |-> Add32(p[i], state[i])]

\* The 64 bytes of one block: the state permuted for rounds/2 double-rounds.
BlockBytes(state, nrounds, skip_feedforward) ==
    WordsToBytes(FeedForward(Permute(state, nrounds \div 2), state,
                             skip_feedforward))

RECURSIVE Blocks(_, _, _, _)
\* The blocks of `count` states, word 13 (the block counter) one more from
\* one to the next, modulo 2^32.
Blocks(state, nrounds, skip_feedforward, count) ==
    IF count = 0 THEN <<>>
    ELSE BlockBytes(state, nrounds, skip_feedforward)
         \o Blocks([state EXCEPT ![13] = Add32(@, U32(1))], nrounds,
                   skip_feedforward, count - 1)

\* backends::rounds: 128 bytes, the block of the state followed by the block
\* of the next counter.
rounds_backend(state, nrounds, skip_feedforward) ==
    Blocks(state, nrounds, skip_feedforward, 2)

----------------------------------------------------------------------------
(* Poly1305 (crate::poly1305): the accumulator h and the multiplier r are  *)
(* 17 little-endian limbs of 8 bits; the arithmetic is modulo 2^130 - 5.   *)

RECURSIVE Prop(_, _, _)
\* Carries of limbs 1..16 are pushed upwards; limb 17 receives the last one.
Prop(h, j, u) ==
    IF j = 17 THEN <<h[17] + u>>
    ELSE <<(h[j] + u) % 256>> \o Prop(h, j + 1, (h[j] + u) \div 256)

\* The bits of a above 2^130 come back times 5.
Fold(a) == Prop([a EXCEPT ![17] = @ % 4], 1, 5 * (a[17] \div 4))

\* Partial reduction modulo 2^130 - 5.
Squeeze(h) == Fold(Prop(h, 1, 0))

RECURSIVE LimbSums(_, _, _)
LimbSums(h, c, i) ==
    IF i > 17 THEN <<>> ELSE <<h[i] + c[i]>> \o LimbSums(h, c, i + 1)

\* h + c on limbs, modulo 2^136.
AddLimbs(h, c) == [Prop(LimbSums(h, c, 1), 1, 0) EXCEPT ![17] = @ % 256]

RECURSIVE SumTo(_, _, _, _)
\* The i-th limb (0-based) of the product h * r, the limbs above 2^136
\* folded back with the factor 320 = 5 * 2^6.
SumTo(h, r, i, j) ==
    IF j = 17 THEN 0
    ELSE (IF j <= i THEN h[j + 1] * r[i - j + 1]
          ELSE 320 * h[j + 1] * r[i + 17 - j + 1])
         + SumTo(h, r, i, j + 1)

RECURSIVE Product(_, _, _)
Product(h, r, i) ==
    IF i = 17 THEN <<>> ELSE <<SumTo(h, r, i, 0)>> \o Product(h, r, i + 1)

MulMod(h, r) == Squeeze(Product(h, r, 0))

\* h - (2^130 - 5) if that is not negative, else h.
Reduced(h, t) == IF t[17] >= 128 THEN h ELSE t

\* The full reduction into 0 .. 2^130 - 6.
Freeze(h) == Reduced(h, AddLimbs(h, <<5>> \o Zeros(15) \o <<252>>))

\* r = key[0..16] with the bits cleared that Poly1305 requires to be zero.
Clamp(k) ==
    [i \in 1..16 |->
        IF i \in {4, 8, 12, 16} THEN k[i] % 16
        ELSE IF i \in {5, 9, 13} THEN k[i] - (k[i] % 4)
        ELSE k[i]] \o <<0>>

\* The limbs of one block of at most 16 bytes, with the byte 1 appended.
BlockLimbs(m, from, len) ==
    SubSeq(m, from, from + len - 1) \o <<1>> \o Zeros(16 - len)

\* The length of the block of m that starts at `from`.
BlockLen(m, from) == IF Len(m) - from + 1 >= 16 THEN 16 ELSE Len(m) - from + 1

\* h after the block of m that starts at `from` has been absorbed.
AbsorbBlock(h, r, m, from) ==
    MulMod(AddLimbs(h, BlockLimbs(m, from, BlockLen(m, from))), r)

RECURSIVE Absorb(_, _, _, _)
\* h after the bytes m[from..] have been absorbed, 16 at a time (h always has
\* 17 limbs).
Absorb(h, r, m, from) ==
    IF from > Len(m) \/ Len(h) # 17 THEN h
    ELSE Absorb(AbsorbBlock(h, r, m, from), r, m, from + 16)

\* Poly1305::new(key): nothing absorbed yet.
Poly1305_new(k) == [key |-> k, absorbed |-> <<>>]

\* Poly1305::update(data): the data joins the absorbed stream.
Poly1305_update(p, data) == [p EXCEPT !.absorbed = @ \o data]

\* Poly1305::tag(): the 16-byte authenticator of the absorbed stream.
Poly1305_tag(p) ==
    SubSeq(AddLimbs(Freeze(Absorb(Zeros(17), Clamp(p.key), p.absorbed, 1)),
                    SubSeq(p.key, 17, 32) \o <<0>>),
           1, 16)

\* Poly1305::verify(tag): the recomputed tag equals the candidate.
Poly1305_verify(p, tag) == Poly1305_tag(p) = tag

----------------------------------------------------------------------------
(* Results.  A call returns Ok(bytes), returns Err(msg) (a PyAssertionError *)
(* as the operation's result), or panics (the call ends abnormally).  log   *)
(* is the sequence of the steps the call went through, blocks the counters  *)
(* of the keystream blocks it XORed with data, absorbed the byte stream it  *)
(* fed to Poly1305.                                                         *)

Ok(bytes, log, blocks, absorbed) ==
    [absorbed |-> absorbed, bytes |-> bytes, log |-> log, blocks |-> blocks,
     kind |-> "Ok", msg |-> ""]

Err(msg, log, blocks, absorbed) ==
    [absorbed |-> absorbed, bytes |-> <<>>, log |-> log, blocks |-> blocks,
     kind |-> "Err", msg |-> msg]

Panic(msg, log, blocks, absorbed) ==
    [absorbed |-> absorbed, bytes |-> <<>>, log |-> log, blocks |-> blocks,
     kind |-> "Panic", msg |-> msg]

\* The result res of an inner call, its steps after those of the caller.
After(log, res) == [res EXCEPT !.log = log \o @]

----------------------------------------------------------------------------
(* ChaCha (cipher.rs:12-87).                                                *)

\* "expand 32-byte k": 0x61707865, 0x3320646e, 0x79622d32, 0x6b206574.
Sigma == <<<<24944, 30821>>, <<13088, 25710>>, <<31074, 11570>>, <<27424, 25972>>>>

\* The eight key words of rows 1 and 2.
KeyWords(k) == [i \in 1..8 |-> from_le_bytes(k, 4 * i - 3)]

\* keystream slices nonce[0..4], nonce[4..8], nonce[8..12]: a shorter nonce
\* is an out-of-range slice.
keystream_in_range(nonce) == Len(nonce) >= 12

\* The 16 words of the state: constants, key, counter, nonce.
ChaChaState(k, nonce, counter) ==
    Sigma \o KeyWords(k) \o <<counter>>
    \o [i \in 1..3 |-> from_le_bytes(nonce, 4 * i - 3)]

\* ChaCha::keystream: the 128 bytes the backend gives for the state.
keystream(k, r, nonce, counter) ==
    rounds_backend(ChaChaState(k, nonce, counter), r, FALSE)

\* counter + index as u32, with whether the sum passed 2^32 - 1.
CounterPlus(counter, index) ==
    [overflow |-> counter[1] + (index \div 65536)
                  + ((counter[2] + (index % 65536)) \div 65536) >= 65536,
     value    |-> Add32(counter, U32(index))]

\* plaintext.chunks(128): the chunk of index `index` (0-based).
Chunk(plaintext, index) ==
    SubSeq(plaintext, 128 * index + 1,
           IF 128 * index + 128 <= Len(plaintext) THEN 128 * index + 128
           ELSE Len(plaintext))

\* block.iter().zip(keystream): chunk ^ key for the bytes of the chunk.
XorChunk(block, ks) == [i \in 1..Len(block) |-> Xor(ks[i], block[i])]

\* The counters of the keystream blocks that reach the bytes of the chunk:
\* the second 64 bytes of a keystream are the block of the next counter.
BlocksUsed(block, counter) ==
    IF Len(block) > 64 THEN <<counter, Add32(counter, U32(1))>>
    ELSE <<counter>>

\* The output of one chunk, followed by what the rest of the loop gives.
PushChunk(out, used, rest) ==
    IF rest.kind = "Ok"
    THEN Ok(out \o rest.bytes, <<"keystream">> \o rest.log,
            used \o rest.blocks, <<>>)
    ELSE Panic(rest.msg, <<"keystream">> \o rest.log, used \o rest.blocks,
               <<>>)

RECURSIVE encrypt_chunks(_, _, _, _, _, _)

\* One turn of the loop, the chunk counter being sum.value.
encrypt_chunk(k, r, plaintext, nonce, counter, index, sum) ==
    IF sum.overflow /\ overflow_checks
    THEN Panic("attempt to add with overflow", <<>>, <<>>, <<>>)
    ELSE PushChunk(
           XorChunk(Chunk(plaintext, index), keystream(k, r, nonce, sum.value)),
           BlocksUsed(Chunk(plaintext, index), sum.value),
           encrypt_chunks(k, r, plaintext, nonce, counter, index + 1))

\* The loop of ChaCha::encrypt from chunk `index` on.
encrypt_chunks(k, r, plaintext, nonce, counter, index) ==
    IF 128 * index >= Len(plaintext) THEN Ok(<<>>, <<>>, <<>>, <<>>)
    ELSE encrypt_chunk(k, r, plaintext, nonce, counter, index,
                       CounterPlus(counter, index))

\* ChaCha::encrypt(plaintext, nonce, counter).
ChaCha_encrypt(k, r, plaintext, nonce, counter) ==
    IF Len(nonce) # 12
    THEN Err("Nonce must be 12 bytes in length.", <<>>, <<>>, <<>>)
    ELSE encrypt_chunks(k, r, plaintext, nonce, counter, 0)

----------------------------------------------------------------------------
(* ChaChaPoly1305 (cipher.rs:89-187).                                       *)

\* u64::to_le_bytes of a length below 2^31.
u64_to_le_bytes(n) ==
    <<n % 256, (n \div 256) % 256, (n \div 65536) % 256, n \div 16777216,
      0, 0, 0, 0>>

\* lens: aad_len followed by ciphertext_len.
Lens(aad, ciphertext) ==
    u64_to_le_bytes(Len(aad)) \o u64_to_le_bytes(Len(ciphertext))

\* poly1305_key = otk[..32], otk the keystream of counter 0.
OneTimeKey(k, r, nonce) == SubSeq(keystream(k, r, nonce, U32(0)), 1, 32)

\* encrypt: update(aad); update(&ciphertext); update(&lens).
encrypt_mac(poly1305_key, aad, ciphertext) ==
    Poly1305_update(
        Poly1305_update(Poly1305_update(Poly1305_new(poly1305_key), aad),
                        ciphertext),
        Lens(aad, ciphertext))

\* decrypt: update(&ciphertext); update(&aad); update(&lens).
decrypt_mac(poly1305_key, aad, ciphertext) ==
    Poly1305_update(
        Poly1305_update(Poly1305_update(Poly1305_new(poly1305_key), ciphertext),
                        aad),
        Lens(aad, ciphertext))

\* Ok([ciphertext, poly1305.tag()].concat()).
encrypt_return(ct, poly1305) ==
    Ok(ct.bytes \o Poly1305_tag(poly1305), ct.log \o <<"tag", "return">>,
       ct.blocks, poly1305.absorbed)

\* encrypt once the one-time key is there: ct is what chacha.encrypt gave,
\* and `?` hands its error on.
encrypt_seal(poly1305_key, ct, aad) ==
    IF ct.kind # "Ok" THEN ct
    ELSE encrypt_return(ct, encrypt_mac(poly1305_key, aad, ct.bytes))

\* ChaChaPoly1305::encrypt(plaintext, nonce, aad, counter).
ChaChaPoly1305_encrypt(k, r, plaintext, nonce, aad, counter) ==
    IF ~keystream_in_range(nonce)
    THEN Panic("range end index out of range for slice", <<>>, <<>>, <<>>)
    ELSE After(<<"keystream">>,
               encrypt_seal(OneTimeKey(k, r, nonce),
                            ChaCha_encrypt(k, r, plaintext, nonce, counter),
                            aad))

\* A faulty end of decrypt, which hands the plaintext out without the MAC
\* comparison (DecryptOrdering tells it from decrypt_return).
decrypt_return_unverified(pt, poly1305, tag) ==
    Ok(pt.bytes, pt.log \o <<"return">>, pt.blocks, poly1305.absorbed)

\* if !poly1305.verify(tag) { Err("Invalid MAC") } else { Ok(plaintext) }.
decrypt_return(pt, poly1305, tag) ==
    IF ~Poly1305_verify(poly1305, tag)
    THEN Err("Invalid MAC", pt.log \o <<"verify">>, pt.blocks,
             poly1305.absorbed)
    ELSE Ok(pt.bytes, pt.log \o <<"verify", "return">>, pt.blocks,
            poly1305.absorbed)

\* decrypt once the one-time key is there: pt is what chacha.encrypt gave,
\* and `?` hands its error on.
decrypt_open(poly1305_key, pt, ciphertext, tag, aad) ==
    IF pt.kind # "Ok" THEN pt
    ELSE decrypt_return(pt, decrypt_mac(poly1305_key, aad, ciphertext), tag)

\* decrypt after the length check, text split into ciphertext and tag.
decrypt_split(k, r, ciphertext, tag, nonce, aad, counter) ==
    decrypt_open(OneTimeKey(k, r, nonce),
                 ChaCha_encrypt(k, r, ciphertext, nonce, counter),
                 ciphertext, tag, aad)

\* ChaChaPoly1305::decrypt(text, nonce, aad, counter).
ChaChaPoly1305_decrypt(k, r, text, nonce, aad, counter) ==
    IF Len(text) < 17
    THEN Err("Invalid ciphertext", <<"check_length">>, <<>>, <<>>)
    ELSE IF ~keystream_in_range(nonce)
    THEN Panic("range end index out of range for slice", <<"check_length">>,
               <<>>, <<>>)
    ELSE After(<<"check_length", "keystream">>,
               decrypt_split(k, r, SubSeq(text, 1, Len(text) - 16),
                             SubSeq(text, Len(text) - 15, Len(text)),
                             nonce, aad, counter))

----------------------------------------------------------------------------
(* HChaCha and XChaChaPoly1305 (cipher.rs:189-284).                         *)

\* [&data[0..16], &data[48..64]].concat().
hchacha_rows(data) == SubSeq(data, 1, 16) \o SubSeq(data, 49, 64)

\* hchacha(key, nonce, rounds): rows 0 and 3 of the permuted state, no
\* feed-forward; row 3 of the input is the 16-byte nonce.
hchacha(k, nonce, r) ==
    hchacha_rows(rounds_backend(
        Sigma \o KeyWords(k) \o [i \in 1..4 |-> from_le_bytes(nonce, 4 * i - 3)],
        r, TRUE))

\* XChaChaPoly1305::key slices nonce[16..24] and nonce[..16]: a nonce shorter
\* than 24 bytes is an out-of-range slice, a longer one is not.
key_in_range(nonce) == Len(nonce) >= 24

\* XChaChaPoly1305::key(nonce): the subkey and the 12-byte ChaCha nonce.
XChaChaPoly1305_key(k, r, nonce) ==
    [chacha_nonce |-> Zeros(4) \o SubSeq(nonce, 17, 24),
     subkey       |-> hchacha(k, SubSeq(nonce, 1, 16), r)]

\* ChaChaPoly1305::new(subkey).encrypt(plaintext, &chacha_nonce, aad, counter).
encrypt_with(kn, r, plaintext, aad, counter) ==
    ChaChaPoly1305_encrypt(kn.subkey, r, plaintext, kn.chacha_nonce, aad,
                           counter)

\* XChaChaPoly1305::encrypt(plaintext, nonce, aad, counter).
XChaChaPoly1305_encrypt(k, r, plaintext, nonce, aad, counter) ==
    IF ~key_in_range(nonce)
    THEN Panic("range end index out of range for slice", <<>>, <<>>, <<>>)
    ELSE After(<<"hchacha">>,
               encrypt_with(XChaChaPoly1305_key(k, r, nonce), r, plaintext,
                            aad, counter))

\* ChaChaPoly1305::new(subkey).decrypt(ciphertext, &chacha_nonce, aad, counter).
decrypt_with(kn, r, ciphertext, aad, counter) ==
    ChaChaPoly1305_decrypt(kn.subkey, r, ciphertext, kn.chacha_nonce, aad,
                           counter)

\* XChaChaPoly1305::decrypt(ciphertext, nonce, aad, counter).
XChaChaPoly1305_decrypt(k, r, ciphertext, nonce, aad, counter) ==
    IF ~key_in_range(nonce)
    THEN Panic("range end index out of range for slice", <<>>, <<>>, <<>>)
    ELSE After(<<"hchacha">>,
               decrypt_with(XChaChaPoly1305_key(k, r, nonce), r, ciphertext,
                            aad, counter))

----------------------------------------------------------------------------
(* The inputs the calls are given.                                         *)

\* The largest number of 128-byte chunks of a plaintext.
MaxChunks == 2
\* The length of the non-empty AAD.
MaxAadLen == 2
\* The largest number of double-rounds a cipher is built with.
MaxDoubleRounds == 1

\* n bytes that differ from one position to the next.
Data(n, seed) == [i \in 1..n |-> (seed + 3 * i) % 256]

\* The 32-byte key of the cipher.
Keys == {Data(32, 0)}

\* The round counts: the permutation is made of double-rounds.
RoundCounts == {2 * j : j \in 1..MaxDoubleRounds}

\* The empty plaintext, one byte, a chunk that reaches into the second
\* 64-byte block of its keystream, and plaintexts of several chunks.
PlainLens == {0, 1, 65} \cup {128 * j + 1 : j \in 1..(MaxChunks - 1)}

AadLens == {0, MaxAadLen}

\* 0, the default 1, and 2^32 - 1.
Counters == {U32(0), U32(1), <<65535, 65535>>}

\* The nonce length of each AEAD, one byte less and one byte more.
NonceLens(variant) ==
    IF variant = "ChaChaPoly1305" THEN {11, 12, 13} ELSE {23, 24, 25}

\* The bytes and bits of a part that are flipped.
TamperBits == {0, 7}
TamperBytes(len) == IF len = 0 THEN {} ELSE {1, len}

\* The byte string with bit `bit` of byte `at` flipped.
FlipBit(bytes, at, bit) == [bytes EXCEPT ![at] = Xor(@, Pow2(bit))]

----------------------------------------------------------------------------
(* The calls.                                                              *)

NoCall == [data |-> <<>>, nonce |-> <<>>, counter |-> U32(0), aad |-> <<>>,
           op |-> "none", tampered |-> "no"]
NoRet == [absorbed |-> <<>>, bytes |-> <<>>, log |-> <<>>, blocks |-> <<>>,
          kind |-> "none", msg |-> ""]
NoPrev == [call |-> NoCall, ret |-> NoRet]

Variants == {"ChaChaPoly1305", "XChaChaPoly1305"}
EncryptOp(variant) == IF variant = "ChaChaPoly1305" THEN "ChaChaPoly1305.encrypt"
                      ELSE "XChaChaPoly1305.encrypt"
DecryptOp(variant) == IF variant = "ChaChaPoly1305" THEN "ChaChaPoly1305.decrypt"
                      ELSE "XChaChaPoly1305.decrypt"
EncryptOps == {EncryptOp(v) : v \in Variants}
DecryptOps == {DecryptOp(v) : v \in Variants}

\* What the call c returns.
Run(c) ==
    CASE c.op = "ChaCha.encrypt" ->
           ChaCha_encrypt(key, rounds, c.data, c.nonce, c.counter)
      [] c.op = "ChaChaPoly1305.encrypt" ->
           ChaChaPoly1305_encrypt(key, rounds, c.data, c.nonce, c.aad, c.counter)
      [] c.op = "ChaChaPoly1305.decrypt" ->
           ChaChaPoly1305_decrypt(key, rounds, c.data, c.nonce, c.aad, c.counter)
      [] c.op = "XChaChaPoly1305.encrypt" ->
           XChaChaPoly1305_encrypt(key, rounds, c.data, c.nonce, c.aad, c.counter)
      [] c.op = "XChaChaPoly1305.decrypt" ->
           XChaChaPoly1305_decrypt(key, rounds, c.data, c.nonce, c.aad, c.counter)

Idle == call.op = "none"

\* A call made on fresh arguments.
Fresh(c) ==
    /\ Idle
    /\ call' = c
    /\ ret' = Run(c)
    /\ prev' = NoPrev
    /\ UNCHANGED <<overflow_checks, key, rounds>>

\* A call made on the output of the call that just returned.
Chained(c) ==
    /\ call' = c
    /\ ret' = Run(c)
    /\ prev' = [call |-> call, ret |-> ret]
    /\ UNCHANGED <<overflow_checks, key, rounds>>

\* ChaCha.encrypt(plaintext, nonce, counter).
CallChaChaEncrypt ==
    \E n \in PlainLens, nl \in {11, 12, 13}, c \in Counters :
        Fresh([data |-> Data(n, 1), nonce |-> Data(nl, 7), counter |-> c,
               aad |-> <<>>, op |-> "ChaCha.encrypt", tampered |-> "no"])

\* ChaCha.encrypt on the output of ChaCha.encrypt, same nonce and counter.
CallChaChaEncryptAgain ==
    /\ call.op = "ChaCha.encrypt" /\ prev = NoPrev /\ ret.kind = "Ok"
    /\ Chained([call EXCEPT !.data = ret.bytes])

\* encrypt(plaintext, nonce, aad, counter) of either AEAD.
CallEncrypt ==
    \E v \in Variants, n \in PlainLens, a \in AadLens, c \in Counters :
      \E nl \in NonceLens(v) :
        Fresh([data |-> Data(n, 1), nonce |-> Data(nl, 7), counter |-> c,
               aad |-> Data(a, 100), op |-> EncryptOp(v), tampered |-> "no"])

\* decrypt of arguments that no encrypt produced.
CallDecrypt ==
    \E v \in Variants, n \in {0, 16, 17}, c \in Counters :
      \E nl \in NonceLens(v) :
        Fresh([data |-> Data(n, 1), nonce |-> Data(nl, 7), counter |-> c,
               aad |-> <<>>, op |-> DecryptOp(v), tampered |-> "no"])

Sealed == call.op \in EncryptOps /\ ret.kind = "Ok"
Opener == IF call.op = "ChaChaPoly1305.encrypt" THEN "ChaChaPoly1305.decrypt"
          ELSE "XChaChaPoly1305.decrypt"

\* decrypt of what encrypt just returned, same nonce, aad and counter.
CallDecryptOutput ==
    /\ Sealed
    /\ Chained([call EXCEPT !.op = Opener, !.data = ret.bytes])

\* decrypt of what encrypt just returned with one bit of the tag flipped.
CallDecryptTamperedTag ==
    /\ Sealed
    /\ \E at \in {Len(ret.bytes) - 15, Len(ret.bytes)}, bit \in TamperBits :
         Chained([call EXCEPT !.op = Opener, !.tampered = "tag",
                              !.data = FlipBit(ret.bytes, at, bit)])

\* ... with one bit of the ciphertext flipped.
CallDecryptTamperedCiphertext ==
    /\ Sealed
    /\ \E at \in TamperBytes(Len(ret.bytes) - 16), bit \in TamperBits :
         Chained([call EXCEPT !.op = Opener, !.tampered = "ciphertext",
                              !.data = FlipBit(ret.bytes, at, bit)])

\* ... with one bit of the AAD flipped.
CallDecryptTamperedAad ==
    /\ Sealed
    /\ \E at \in TamperBytes(Len(call.aad)), bit \in TamperBits :
         Chained([call EXCEPT !.op = Opener, !.tampered = "aad",
                              !.data = ret.bytes,
                              !.aad = FlipBit(call.aad, at, bit)])

\* The caller is done with the result.
Return ==
    /\ ~Idle
    /\ call' = NoCall /\ ret' = NoRet /\ prev' = NoPrev
    /\ UNCHANGED <<overflow_checks, key, rounds>>

\* ChaCha::new / ChaChaPoly1305::new / XChaChaPoly1305::new with a 32-byte key
\* and rounds >= 1; no call made yet.
Init ==
    /\ overflow_checks \in BOOLEAN
    /\ key \in Keys
    /\ rounds \in RoundCounts
    /\ call = NoCall /\ ret = NoRet /\ prev = NoPrev

Next ==
    \/ CallChaChaEncrypt
    \/ CallChaChaEncryptAgain
    \/ CallEncrypt
    \/ CallDecrypt
    \/ CallDecryptOutput
    \/ CallDecryptTamperedTag
    \/ CallDecryptTamperedCiphertext
    \/ CallDecryptTamperedAad
    \/ Return

Spec == Init /\ [][Next]_vars

----------------------------------------------------------------------------
(* Properties.                                                              *)

\* The positions of a step in a log.
Steps(log, step) == {i \in 1..Len(log) : log[i] = step}

\* Every occurrence of `later` in the log has an occurrence of `first`
\* before it.
Precedes(log, first, later) ==
    \A j \in Steps(log, later) : \E i \in Steps(log, first) : i < j

AeadOps == EncryptOps \cup DecryptOps

\* The nonce length an operation asks for.
RequiredNonceLen(op) ==
    IF op \in {"XChaChaPoly1305.encrypt", "XChaChaPoly1305.decrypt"} THEN 24
    ELSE 12

\* The call is a decrypt of what the encrypt before it returned.
Opened == call.op \in DecryptOps /\ prev # NoPrev

\* C1. Round trip: with a nonce of the required length and a non-empty
\* plaintext, decrypt of the output of encrypt, under the same nonce, AAD and
\* counter, returns exactly the plaintext (both AEADs, any AAD).
C1_RoundTrip ==
    (/\ Opened
     /\ call.tampered = "no"
     /\ Len(call.nonce) = RequiredNonceLen(call.op)
     /\ prev.call.data # <<>>)
    => (ret.kind = "Ok" /\ ret.bytes = prev.call.data)

\* C2. Tamper detection: decrypt of an output of ChaChaPoly1305.encrypt with
\* one bit of the tag, of the ciphertext or of the AAD flipped returns the
\* authentication error and no plaintext.
C2_TamperDetection ==
    (/\ Opened
     /\ call.op = "ChaChaPoly1305.decrypt"
     /\ call.tampered # "no")
    => (ret.kind = "Err" /\ ret.msg = "Invalid MAC" /\ ret.bytes = <<>>)

\* C3. Zero-length plaintext: ChaChaPoly1305.encrypt of the empty plaintext
\* returns exactly 16 bytes, and decrypt of those 16 bytes under the same
\* nonce, AAD and counter returns the empty plaintext, not an error.
C3_ZeroLength ==
    /\ (/\ call.op = "ChaChaPoly1305.encrypt"
        /\ Len(call.nonce) = 12
        /\ call.data = <<>>)
       => (ret.kind = "Ok" /\ Len(ret.bytes) = 16)
    /\ (/\ Opened
        /\ call.op = "ChaChaPoly1305.decrypt"
        /\ call.tampered = "no"
        /\ prev.call.data = <<>>)
       => (ret.kind = "Ok" /\ ret.bytes = <<>>)

\* C4. Decrypt ordering: in every decrypt of either AEAD the length check
\* comes before every keystream computation and before the MAC comparison,
\* the MAC comparison comes before the plaintext is returned, and a call that
\* does not succeed returns no byte.
C4_DecryptOrdering ==
    call.op \in DecryptOps =>
        /\ Precedes(ret.log, "check_length", "keystream")
        /\ Precedes(ret.log, "check_length", "verify")
        /\ Precedes(ret.log, "verify", "return")
        /\ (ret.kind = "Ok") = (Steps(ret.log, "return") # {})
        /\ (ret.kind # "Ok" => ret.bytes = <<>>)

\* C4, its case: a decrypt that passed the length check and the MAC
\* comparison and returned plaintext, and before it in the behaviour the
\* encrypt whose output it opened.
C4_Witness ==
    /\ Opened
    /\ call.op = "XChaChaPoly1305.decrypt"
    /\ ret.kind = "Ok"
    /\ ret.bytes # <<>>
    /\ ret.log = <<"hchacha", "check_length", "keystream", "keystream",
                   "verify", "return">>

\* C5. Invalid nonce length: an AEAD call with a nonce that has not the
\* required length (12, or 24 for XChaChaPoly1305; shorter or longer) returns
\* the invalid-nonce-length error as its result: it neither panics nor
\* returns bytes.
C5_InvalidNonceLength ==
    (/\ call.op \in AeadOps
     /\ Len(call.nonce) # RequiredNonceLen(call.op))
    => (/\ ret.kind = "Err"
        /\ ret.msg = "Nonce must be 12 bytes in length."
        /\ ret.bytes = <<>>)

\* C6. Reserved block 0: no ChaChaPoly1305 encrypt or decrypt XORs the
\* keystream block of counter 0 with a byte of its data, whatever the counter
\* it is given.
C6_ReservedBlock ==
    call.op \in {"ChaChaPoly1305.encrypt", "ChaChaPoly1305.decrypt"} =>
        \A i \in 1..Len(ret.blocks) : ret.blocks[i] # U32(0)

\* The chunk counter of some chunk of the data passes 2^32 - 1.
Exhausts(counter, data) ==
    \E index \in 0..(Len(data) \div 128) :
        128 * index < Len(data) /\ CounterPlus(counter, index).overflow

\* C7. Counter exhaustion: a ChaCha.encrypt whose chunk counter passes
\* 2^32 - 1 completes, with an output as long as its input; it never panics.
C7_CounterWraps ==
    (/\ call.op = "ChaCha.encrypt"
     /\ Len(call.nonce) = 12
     /\ Exhausts(call.counter, call.data))
    => (ret.kind = "Ok" /\ Len(ret.bytes) = Len(call.data))

\* C8. Stream self-inverse: with a 12-byte nonce, ChaCha.encrypt returns an
\* output as long as its input, for every counter, and ChaCha.encrypt of that
\* output under the same nonce and counter returns the input.
C8_SelfInverse ==
    (call.op = "ChaCha.encrypt" /\ Len(call.nonce) = 12) =>
        /\ ret.kind = "Ok"
        /\ Len(ret.bytes) = Len(call.data)
        /\ (prev # NoPrev => ret.bytes = prev.call.data)

\* The stream of an unbatched cipher: byte i of the data (0-based) XORed with
\* byte i mod 64 of the block of counter + floor(i / 64), modulo 2^32.
Unbatched(k, r, data, nonce, counter) ==
    XorChunk(data, Blocks(ChaChaState(k, nonce, counter), r, FALSE,
                          (Len(data) + 63) \div 64))

\* C9. Batching is transparent: the output of ChaCha.encrypt is that of the
\* unbatched cipher, and no keystream block is applied to two segments of the
\* data.
C9_BatchingTransparent ==
    (call.op = "ChaCha.encrypt" /\ ret.kind = "Ok") =>
        /\ ret.bytes = Unbatched(key, rounds, call.data, call.nonce,
                                 call.counter)
        /\ \A i, j \in 1..Len(ret.blocks) :
               ret.blocks[i] = ret.blocks[j] => i = j

\* The ciphertext of a ChaChaPoly1305 call: the output of encrypt, or the
\* input of decrypt, without the 16 bytes of the tag.
Ciphertext ==
    IF call.op = "ChaChaPoly1305.encrypt"
    THEN SubSeq(ret.bytes, 1, Len(ret.bytes) - 16)
    ELSE SubSeq(call.data, 1, Len(call.data) - 16)

\* C10. MAC input order: ChaChaPoly1305 encrypt and decrypt both feed
\* Poly1305 the AAD, then the ciphertext, then the two lengths.
C10_MacInputOrder ==
    (/\ call.op \in {"ChaChaPoly1305.encrypt", "ChaChaPoly1305.decrypt"}
     /\ ret.absorbed # <<>>)
    => ret.absorbed = call.aad \o Ciphertext \o Lens(call.aad, Ciphertext)

====
